---- MODULE Spec2Model ----
(***************************************************************************)
(* Backbone extraction of reddit_cascade_processing/disparity_filter.py:   *)
(* compute_backbone_network reads a weighted edge list, dispatches on the  *)
(* filter type, and disparity_filter_ncdf_parallel evaluates every unique  *)
(* node with process_node_ncdf in a multiprocessing pool and merges the    *)
(* per-node candidate lists into one set of (u, v, weight) tuples.         *)
(*                                                                         *)
(* Numbers.  Weights are integers (the upstream builder writes             *)
(* intersection sizes); alpha values and thresholds are exact rationals    *)
(* <<numerator, denominator>> with a positive denominator.  The code works *)
(* in IEEE doubles.  Within the bounds below an exact alpha that differs   *)
(* from the threshold differs from it by more than 1/200, far above the    *)
(* rounding error of a double, and the thresholds (1/2, 1, 3/2) are        *)
(* dyadic: an exact tie needs a dyadic weight share, for which the double  *)
(* arithmetic is exact as well.  The comparison alpha < threshold of the   *)
(* model therefore decides as the comparison of the code does.             *)
(***************************************************************************)
EXTENDS Integers, Sequences, FiniteSets, TLC

\* ---------------------------------------------------------------- bounds
MaxWeight == 2
MaxProcesses == 2

\* Node identifiers (opaque strings in the code; ordered like sorted()).
Nodes == {1, 2, 3, 4}

\* Rows of the longest input file: as many as a tree over Nodes has edges.
MaxRows == Cardinality(Nodes) - 1

\* Weights a CSV row may carry: the reader accepts any number.
Weights == (0 - 1) .. MaxWeight

\* alpha_threshold values (--alpha accepts any float).
Thresholds == {<<1, 2>>, <<1, 1>>, <<3, 2>>}

FilterTypes == {"disparity", "ncdf", "other"}

Rows == [source : Nodes, target : Nodes, weight : Weights]

\* ------------------------------------------------------------- rationals
Less(a, b) == a[1] * b[2] < b[1] * a[2]

Leq(a, b) == a[1] * b[2] <= b[1] * a[2]

Norm(q) == IF q[2] < 0 THEN <<0 - q[1], 0 - q[2]>> ELSE q

RECURSIVE Pow(_, _)
Pow(b, e) == IF e = 0 THEN 1 ELSE b * Pow(b, e - 1)

\* ------------------------------------------------------ sequence helpers
RECURSIVE SumWeights(_, _)
SumWeights(df, S) ==
  IF S = {} THEN 0
  ELSE LET i == CHOOSE x \in S : TRUE
       IN df[i].weight + SumWeights(df, S \ {i})

RECURSIVE Unique(_)
Unique(s) ==
  IF s = <<>> THEN <<>>
  ELSE LET init == Unique(SubSeq(s, 1, Len(s) - 1))
           last == s[Len(s)]
       IN IF \E i \in 1 .. Len(init) : init[i] = last THEN init
          ELSE Append(init, last)

\* pd.concat([df['source'], df['target']]).unique()
UniqueNodes(df) ==
  Unique([i \in 1 .. Len(df) |-> df[i].source] \o
         [i \in 1 .. Len(df) |-> df[i].target])

\* A simple graph: no self-loop, one row per unordered pair.
Simple(df) ==
  /\ \A i \in 1 .. Len(df) : df[i].source # df[i].target
  /\ \A i, j \in 1 .. Len(df) :
       i # j => {df[i].source, df[i].target} # {df[j].source, df[j].target}

\* ------------------------------------------------------------ the filter
One == <<1, 1>>

\* Variant: the complement is forgotten, alpha = (1 - p) ^ (k - 1).
calculate_ncdf_alpha_no_complement(weight, total_weight, degree) ==
  IF degree < 2 \/ total_weight = 0 THEN One
  ELSE Norm(<<Pow(total_weight - weight, degree - 1),
              Pow(total_weight, degree - 1)>>)

calculate_ncdf_alpha(weight, total_weight, degree) ==
  IF degree < 2 \/ total_weight = 0 THEN One
  ELSE LET d == Pow(total_weight, degree - 1)
       IN Norm(<<d - Pow(total_weight - weight, degree - 1), d>>)

\* edgelist_df[(source == node) | (target == node)], as row indices
\* Variant: only the rows in which the node is the source are selected.
neighbors_df_source_only(node, df) ==
  {i \in 1 .. Len(df) : df[i].source = node}

neighbors_df(node, df) ==
  {i \in 1 .. Len(df) : df[i].source = node \/ df[i].target = node}

\* Variant: the weight is sorted together with the two node identifiers.
sorted_edge_with_weight(row) ==
  LET lo == CHOOSE x \in {row.source, row.target, row.weight} :
              \A y \in {row.source, row.target, row.weight} : x <= y
      hi == CHOOSE x \in {row.source, row.target, row.weight} :
              \A y \in {row.source, row.target, row.weight} : y <= x
  IN <<lo, row.source + row.target + row.weight - lo - hi, hi>>

\* tuple(sorted((u, v))) + (weight,)
sorted_edge(row) ==
  IF row.source <= row.target THEN <<row.source, row.target, row.weight>>
  ELSE <<row.target, row.source, row.weight>>

\* Variant: alpha <= alpha_threshold keeps the edge.
process_node_ncdf_leq(node, df, alpha_threshold) ==
  LET nb == neighbors_df(node, df)
      degree == Cardinality(nb)
      total_weight == SumWeights(df, nb)
  IN IF nb = {} THEN {}
     ELSE IF total_weight = 0 \/ degree < 2 THEN {}
     ELSE {sorted_edge(df[i]) :
             i \in {j \in nb :
                      Leq(calculate_ncdf_alpha(df[j].weight, total_weight, degree),
                          alpha_threshold)}}

\* Variant: the comparison is reversed, alpha > alpha_threshold keeps the edge.
process_node_ncdf_reversed(node, df, alpha_threshold) ==
  LET nb == neighbors_df(node, df)
      degree == Cardinality(nb)
      total_weight == SumWeights(df, nb)
  IN IF nb = {} THEN {}
     ELSE IF total_weight = 0 \/ degree < 2 THEN {}
     ELSE {sorted_edge(df[i]) :
             i \in {j \in nb :
                      Less(alpha_threshold,
                           calculate_ncdf_alpha(df[j].weight, total_weight, degree))}}

\* Variant: the early return on degree < 2 is missing.
process_node_ncdf_no_degree_guard(node, df, alpha_threshold) ==
  LET nb == neighbors_df(node, df)
      degree == Cardinality(nb)
      total_weight == SumWeights(df, nb)
  IN IF nb = {} THEN {}
     ELSE IF total_weight = 0 THEN {}
     ELSE {sorted_edge(df[i]) :
             i \in {j \in nb :
                      Less(calculate_ncdf_alpha(df[j].weight, total_weight, degree),
                           alpha_threshold)}}

\* Variant: the edge is emitted as (evaluated node, neighbour, weight).
process_node_ncdf_from_node(node, df, alpha_threshold) ==
  LET nb == neighbors_df(node, df)
      degree == Cardinality(nb)
      total_weight == SumWeights(df, nb)
  IN IF nb = {} THEN {}
     ELSE IF total_weight = 0 \/ degree < 2 THEN {}
     ELSE {<<node,
             IF df[i].source = node THEN df[i].target ELSE df[i].source,
             df[i].weight>> :
             i \in {j \in nb :
                      Less(calculate_ncdf_alpha(df[j].weight, total_weight, degree),
                           alpha_threshold)}}

process_node_ncdf(node, df, alpha_threshold) ==
  LET nb == neighbors_df(node, df)
      degree == Cardinality(nb)
      total_weight == SumWeights(df, nb)
  IN IF nb = {} THEN {}
     ELSE IF total_weight = 0 \/ degree < 2 THEN {}
     ELSE {sorted_edge(df[i]) :
             i \in {j \in nb :
                      Less(calculate_ncdf_alpha(df[j].weight, total_weight, degree),
                           alpha_threshold)}}

\* Variant: the sublist replaces the accumulator.
Merge_overwrite(backbone_edges, sublist) ==
  IF sublist = {} THEN backbone_edges ELSE sublist

\* Variant: an edge already present is toggled out (symmetric difference).
Merge_toggle(backbone_edges, sublist) ==
  (backbone_edges \ sublist) \cup (sublist \ backbone_edges)

\* for edge in sublist: backbone_edges.add(edge)
Merge(backbone_edges, sublist) == backbone_edges \cup sublist

\* [{'source': u, 'target': v, 'weight': weight} for u, v, weight in ...]
ToDataFrame(edge_set) ==
  {[source |-> e[1], target |-> e[2], weight |-> e[3]] : e \in edge_set}

\* ------------------------------------------------------------- the state
VARIABLES
  csv,             \* the input file: [kind, rows]
  filter_type,     \* argument of compute_backbone_network
  alpha,           \* argument alpha (the threshold)
  num_processes,   \* argument num_processes
  pc,              \* position of the coordinator
  edgelist_df,     \* the frame read from the file
  unique_nodes,    \* the task list of the pool
  next_task,       \* index of the next task the pool hands out
  running,         \* worker -> task index it evaluates (0: idle)
  results,         \* task index -> result slot
  merged,          \* number of sublists merged so far
  backbone_edges,  \* the accumulator of the coordinator
  backbone_df,     \* what compute_backbone_network returned
  stdout,          \* the lines printed
  out_of_order,    \* a task has completed before an earlier one of the list
  failed,          \* task indices whose evaluation raised in a worker
  output_file,     \* the file at the output path: [exists, rows]
  exit_status,     \* exit status of the command-line run ("running" before)
  user_subreddits, \* build_edge_list: user -> set of subreddits
  chunk_size,      \* build_edge_list: size of a batch of user pairs
  next_chunk,      \* build_edge_list: index of the next batch handed out
  in_flight,       \* build_edge_list: batches being computed by workers
  arrived,         \* build_edge_list: batch results not yet accumulated
  all_edges,       \* build_edge_list: the accumulated dict
  build_pc         \* build_edge_list: position of the coordinator

\* the state of build_edge_list
builder_vars == <<user_subreddits, chunk_size, next_chunk, in_flight, arrived,
                  all_edges, build_pc>>

\* what the backbone computation itself never touches
other_vars == <<failed, output_file, exit_status, builder_vars>>

\* the state of the backbone computation
filter_vars == <<csv, filter_type, alpha, num_processes, pc, edgelist_df,
                 unique_nodes, next_task, running, results, merged,
                 backbone_edges, backbone_df, stdout, out_of_order>>

vars == <<filter_vars, other_vars>>

\* A result slot of starmap: <<>> while pending, <<candidates>> once filled.
NoResult == <<>>

Workers == 1 .. MaxProcesses

\* Input files.  Every list of fewer than MaxRows rows (either orientation,
\* self-loops and repeated pairs included, any weight, any row order), and
\* every simple list of MaxRows rows with positive weights whose pairs come
\* in the order in which the upstream builder writes them (either
\* orientation of each row).
ShortLists == UNION {[1 .. n -> Rows] : n \in 0 .. MaxRows - 1}

Lo(r) == IF r.source < r.target THEN r.source ELSE r.target

Hi(r) == IF r.source < r.target THEN r.target ELSE r.source

PairOrdered(df) ==
  \A i \in 1 .. Len(df) - 1 :
    \/ Lo(df[i]) < Lo(df[i + 1])
    \/ Lo(df[i]) = Lo(df[i + 1]) /\ Hi(df[i]) < Hi(df[i + 1])

SimpleLists ==
  {df \in [1 .. MaxRows -> Rows] :
     /\ \A i \in 1 .. Len(df) : df[i].weight > 0 /\ df[i].source # df[i].target
     /\ PairOrdered(df)}

CsvFiles ==
  {[kind |-> "ok", rows |-> df] : df \in ShortLists \cup SimpleLists}
    \cup {[kind |-> k, rows |-> <<>>] :
            k \in {"no_weight_column", "unreadable", "not_found", "no_content"}}

NoFile == [exists |-> FALSE, rows |-> {}]

\* build_edge_list is not running
BuilderIdle ==
  /\ user_subreddits = <<>>
  /\ chunk_size = 1
  /\ next_chunk = 1
  /\ in_flight = {}
  /\ arrived = <<>>
  /\ all_edges = <<>>
  /\ build_pc = "idle"

Init ==
  /\ csv \in CsvFiles
  /\ filter_type \in FilterTypes
  /\ alpha \in Thresholds
  /\ num_processes \in 1 .. MaxProcesses
  \* alpha and num_processes are read by the ncdf filter only
  /\ (csv.kind # "ok" \/ csv.rows = <<>> \/ filter_type # "ncdf")
       => (alpha = <<1, 2>> /\ num_processes = 1)
  /\ pc = "call"
  /\ edgelist_df = <<>>
  /\ unique_nodes = <<>>
  /\ next_task = 1
  /\ running = [w \in Workers |-> 0]
  /\ results = <<>>
  /\ merged = 0
  /\ backbone_edges = {}
  /\ backbone_df = {}
  /\ stdout = <<>>
  /\ out_of_order = FALSE
  /\ failed = {}
  /\ output_file = NoFile
  /\ exit_status = "running"
  /\ BuilderIdle

\* compute_backbone_network, lines 105-118: read and validate.  A file that
\* does not exist raises FileNotFoundError; a file without any content makes
\* read_csv raise EmptyDataError, which the handler of line 116 reports like
\* every other read error.  A file with a header and no row is read as an
\* empty frame.
ReadCsv ==
  /\ pc = "call"
  /\ IF csv.kind = "not_found"
       THEN /\ stdout' = Append(stdout, "Error: File not found")
            /\ pc' = "returned"
            /\ UNCHANGED edgelist_df
     ELSE IF csv.kind \in {"unreadable", "no_content"}
       THEN /\ stdout' = Append(stdout, "An error occurred while reading the CSV file")
            /\ pc' = "returned"
            /\ UNCHANGED edgelist_df
     ELSE IF csv.kind = "no_weight_column"
       THEN /\ stdout' = Append(stdout, "Error: CSV file must contain columns")
            /\ pc' = "returned"
            /\ UNCHANGED edgelist_df
     ELSE IF csv.rows = <<>>
       THEN /\ stdout' = Append(stdout, "Warning: Input CSV file is empty.")
            /\ pc' = "returned"
            /\ UNCHANGED edgelist_df
     ELSE /\ edgelist_df' = csv.rows
          /\ pc' = "validated"
          /\ UNCHANGED stdout
  /\ UNCHANGED <<csv, filter_type, alpha, num_processes, unique_nodes, next_task,
                 running, results, merged, backbone_edges, backbone_df,
                 out_of_order>>
  /\ UNCHANGED other_vars

\* compute_backbone_network, lines 120-121: disparity_filter_parallel is not
\* defined anywhere in the module, the call raises NameError
SelectDisparity ==
  /\ pc = "validated"
  /\ filter_type = "disparity"
  /\ pc' = "raised"
  /\ UNCHANGED <<csv, filter_type, alpha, num_processes, edgelist_df, unique_nodes,
                 next_task, running, results, merged, backbone_edges, backbone_df,
                 stdout,
                 out_of_order>>
  /\ UNCHANGED other_vars

\* lines 122-123 and 71-76: the task list and the pool
SelectNcdf ==
  /\ pc = "validated"
  /\ filter_type = "ncdf"
  /\ unique_nodes' = UniqueNodes(edgelist_df)
  /\ results' = [i \in 1 .. Len(UniqueNodes(edgelist_df)) |-> NoResult]
  /\ next_task' = 1
  /\ pc' = "pool"
  /\ UNCHANGED <<csv, filter_type, alpha, num_processes, edgelist_df, running,
                 merged, backbone_edges, backbone_df, stdout,
                 out_of_order>>
  /\ UNCHANGED other_vars

\* lines 124-126
SelectUnknown ==
  /\ pc = "validated"
  /\ filter_type \notin {"disparity", "ncdf"}
  /\ stdout' = Append(stdout, "Error: Unknown filter type")
  /\ pc' = "returned"
  /\ UNCHANGED <<csv, filter_type, alpha, num_processes, edgelist_df, unique_nodes,
                 next_task, running, results, merged, backbone_edges, backbone_df,
                 out_of_order>>
  /\ UNCHANGED other_vars

\* a pool worker takes the next task of starmap
WorkerTake(w) ==
  /\ pc = "pool"
  /\ w <= num_processes
  /\ running[w] = 0
  /\ next_task <= Len(unique_nodes)
  /\ running' = [running EXCEPT ![w] = next_task]
  /\ next_task' = next_task + 1
  /\ UNCHANGED <<csv, filter_type, alpha, num_processes, pc, edgelist_df,
                 unique_nodes, results, merged, backbone_edges, backbone_df, stdout,
                 out_of_order>>
  /\ UNCHANGED other_vars

\* Variant: the evaluation prunes the shared edge list in place, dropping
\* the rows of its node that are not significant from this node.
WorkerFinish_inplace(w) ==
  /\ pc = "pool"
  /\ running[w] # 0
  /\ results' = [results EXCEPT ![running[w]] =
                   <<process_node_ncdf(unique_nodes[running[w]], edgelist_df, alpha)>>]
  /\ edgelist_df' =
       SelectSeq(edgelist_df,
                 LAMBDA r : \/ unique_nodes[running[w]] \notin {r.source, r.target}
                            \/ sorted_edge(r) \in
                                 process_node_ncdf(unique_nodes[running[w]], edgelist_df, alpha))
  /\ running' = [running EXCEPT ![w] = 0]
  /\ out_of_order' = (out_of_order \/ \E i \in 1 .. running[w] - 1 : results[i] = NoResult)
  /\ UNCHANGED <<csv, filter_type, alpha, num_processes, pc,
                 unique_nodes, next_task, merged, backbone_edges, backbone_df, stdout>>
  /\ UNCHANGED other_vars

\* the worker runs process_node_ncdf and its result is stored at the task's index
WorkerFinish(w) ==
  /\ pc = "pool"
  /\ running[w] # 0
  /\ results' = [results EXCEPT ![running[w]] =
                   <<process_node_ncdf(unique_nodes[running[w]], edgelist_df, alpha)>>]
  /\ running' = [running EXCEPT ![w] = 0]
  /\ out_of_order' = (out_of_order \/ \E i \in 1 .. running[w] - 1 : results[i] = NoResult)
  /\ UNCHANGED <<csv, filter_type, alpha, num_processes, pc, edgelist_df,
                 unique_nodes, next_task, merged, backbone_edges, backbone_df, stdout>>
  /\ UNCHANGED other_vars

\* starmap returns once every task has its result; line 79
PoolJoin ==
  /\ pc = "pool"
  /\ \A i \in 1 .. Len(results) : results[i] # NoResult
  /\ backbone_edges' = {}
  /\ merged' = 0
  /\ pc' = "merge"
  /\ UNCHANGED <<csv, filter_type, alpha, num_processes, edgelist_df, unique_nodes,
                 next_task, running, results, backbone_df, stdout,
                 out_of_order>>
  /\ UNCHANGED other_vars

\* lines 80-82, one sublist
MergeSublist ==
  /\ pc = "merge"
  /\ merged < Len(results)
  /\ backbone_edges' = Merge(backbone_edges, results[merged + 1][1])
  /\ merged' = merged + 1
  /\ UNCHANGED <<csv, filter_type, alpha, num_processes, pc, edgelist_df,
                 unique_nodes, next_task, running, results, backbone_df, stdout,
                 out_of_order>>
  /\ UNCHANGED other_vars

\* Variant: the frame is built as soon as the first sublist is merged.
ReturnBackbone_early ==
  /\ pc = "merge"
  /\ merged >= 1
  /\ backbone_df' = ToDataFrame(backbone_edges)
  /\ pc' = "returned"
  /\ UNCHANGED <<csv, filter_type, alpha, num_processes, edgelist_df, unique_nodes,
                 next_task, running, results, merged, backbone_edges, stdout,
                 out_of_order>>
  /\ UNCHANGED other_vars

\* lines 84-87 and 128
ReturnBackbone ==
  /\ pc = "merge"
  /\ merged = Len(results)
  /\ backbone_df' = ToDataFrame(backbone_edges)
  /\ pc' = "returned"
  /\ UNCHANGED <<csv, filter_type, alpha, num_processes, edgelist_df, unique_nodes,
                 next_task, running, results, merged, backbone_edges, stdout,
                 out_of_order>>
  /\ UNCHANGED other_vars

Next ==
  \/ ReadCsv
  \/ SelectDisparity
  \/ SelectNcdf
  \/ SelectUnknown
  \/ \E w \in Workers : WorkerTake(w)
  \/ \E w \in Workers : WorkerFinish(w)
  \/ PoolJoin
  \/ MergeSublist
  \/ ReturnBackbone

Spec == Init /\ [][Next]_vars

\* ------------------------------------------- the command line, lines 130-163
\* to_csv succeeded, lines 148-159
MainSave ==
  /\ pc = "returned"
  /\ backbone_df # {}
  /\ output_file' = [exists |-> TRUE, rows |-> backbone_df]
  /\ stdout' = Append(stdout, "Backbone network saved")
  /\ exit_status' = "0"
  /\ pc' = "exited"
  /\ UNCHANGED <<csv, filter_type, alpha, num_processes, edgelist_df, unique_nodes,
                 next_task, running, results, merged, backbone_edges, backbone_df,
                 out_of_order, failed, builder_vars>>

\* to_csv writes straight to the output path; when it raises (lines 160-161)
\* the file is missing or holds only part of the rows
MainSaveFails ==
  /\ pc = "returned"
  /\ backbone_df # {}
  /\ \E f \in {NoFile} \cup
              {[exists |-> TRUE, rows |-> part] :
                 part \in (SUBSET backbone_df) \ {backbone_df}} :
       output_file' = f
  /\ stdout' = Append(stdout, "Error saving the backbone network to CSV")
  /\ exit_status' = "0"
  /\ pc' = "exited"
  /\ UNCHANGED <<csv, filter_type, alpha, num_processes, edgelist_df, unique_nodes,
                 next_task, running, results, merged, backbone_edges, backbone_df,
                 out_of_order, failed, builder_vars>>

\* lines 162-163: an empty frame, whatever made it empty
MainNoBackbone ==
  /\ pc = "returned"
  /\ backbone_df = {}
  /\ stdout' = Append(stdout, "No backbone network could be computed.")
  /\ exit_status' = "0"
  /\ pc' = "exited"
  /\ UNCHANGED <<csv, filter_type, alpha, num_processes, edgelist_df, unique_nodes,
                 next_task, running, results, merged, backbone_edges, backbone_df,
                 out_of_order, failed, output_file, builder_vars>>

\* line 146: an exception of compute_backbone_network is not caught, the
\* interpreter prints the traceback and exits with status 1
MainUncaught ==
  /\ pc = "raised"
  /\ exit_status' = "1"
  /\ pc' = "exited"
  /\ UNCHANGED <<csv, filter_type, alpha, num_processes, edgelist_df, unique_nodes,
                 next_task, running, results, merged, backbone_edges, backbone_df,
                 stdout, out_of_order, failed, output_file, builder_vars>>

\* --filter has the choices disparity and ncdf, line 136
InitMain == Init /\ filter_type \in {"disparity", "ncdf"}

NextMain ==
  \/ ReadCsv
  \/ SelectDisparity
  \/ SelectNcdf
  \/ \E w \in Workers : WorkerTake(w)
  \/ \E w \in Workers : WorkerFinish(w)
  \/ PoolJoin
  \/ MergeSublist
  \/ ReturnBackbone
  \/ MainSave
  \/ MainSaveFails
  \/ MainNoBackbone
  \/ MainUncaught

SpecMain == InitMain /\ [][NextMain]_vars

\* ------------------------------------------------- a failing evaluation
\* Variant: the worker swallows the exception and hands back an empty
\* candidate list for its node.
WorkerFail_swallowed(w) ==
  /\ pc = "pool"
  /\ running[w] # 0
  /\ failed' = failed \cup {running[w]}
  /\ results' = [results EXCEPT ![running[w]] = <<{}>>]
  /\ running' = [running EXCEPT ![w] = 0]
  /\ UNCHANGED <<csv, filter_type, alpha, num_processes, pc, edgelist_df,
                 unique_nodes, next_task, merged, backbone_edges,
                 backbone_df, stdout, out_of_order, output_file, exit_status,
                 builder_vars>>

\* process_node_ncdf raises in the worker (a row the arithmetic of lines
\* 35-43 cannot handle); the pool keeps the exception for the coordinator
WorkerFail(w) ==
  /\ pc = "pool"
  /\ running[w] # 0
  /\ failed' = failed \cup {running[w]}
  /\ running' = [running EXCEPT ![w] = 0]
  /\ UNCHANGED <<csv, filter_type, alpha, num_processes, pc, edgelist_df,
                 unique_nodes, next_task, results, merged, backbone_edges,
                 backbone_df, stdout, out_of_order, output_file, exit_status,
                 builder_vars>>

\* starmap re-raises the worker's exception in the coordinator; nothing in
\* lines 71-87 or 120-128 catches it
PoolRaise ==
  /\ pc = "pool"
  /\ failed # {}
  /\ pc' = "raised"
  /\ UNCHANGED <<csv, filter_type, alpha, num_processes, edgelist_df, unique_nodes,
                 next_task, running, results, merged, backbone_edges, backbone_df,
                 stdout, out_of_order, other_vars>>

InitFault ==
  Init /\ csv.kind = "ok" /\ csv.rows # <<>> /\ filter_type = "ncdf" /\ alpha = One

NextFault ==
  \/ ReadCsv
  \/ SelectNcdf
  \/ \E w \in Workers : WorkerTake(w)
  \/ \E w \in Workers : WorkerFinish(w)
  \/ \E w \in Workers : WorkerFail(w)
  \/ PoolRaise
  \/ PoolJoin
  \/ MergeSublist
  \/ ReturnBackbone

SpecFault == InitFault /\ [][NextFault]_vars

\* ------------------- build_edge_list, filter_cascade_and_build_network.py
Users == {1, 2, 3, 4}

Subreddits == {"a", "b"}

\* load_subreddit_counts creates a user's entry when it adds a subreddit to
\* it: every set of the dictionary has a member
UserSubreddits == [Users -> (SUBSET Subreddits) \ {{}}]

PairSet == {p \in Users \X Users : p[1] < p[2]}

NumPairs == Cardinality(PairSet)

PairRank(p) ==
  1 + Cardinality({q \in PairSet : q[1] < p[1] \/ (q[1] = p[1] /\ q[2] < p[2])})

\* combinations(users, 2), line 185, in the order itertools yields it
user_pairs == [i \in 1 .. NumPairs |-> CHOOSE p \in PairSet : PairRank(p) = i]

ChunkSizes == 1 .. NumPairs

NumChunks(size) == (NumPairs + size - 1) \div size

Min(a, b) == IF a < b THEN a ELSE b

\* Variant: a chunk starts with the last pair of the chunk before it.
chunked_iterable_overlapping(pairs, size) ==
  [c \in 1 .. NumChunks(size) |->
     SubSeq(pairs, IF c = 1 THEN 1 ELSE (c - 1) * size, Min(c * size, Len(pairs)))]

\* lines 164-170: islice takes the next `size` pairs until none is left
chunked_iterable(pairs, size) ==
  [c \in 1 .. NumChunks(size) |->
     SubSeq(pairs, (c - 1) * size + 1, Min(c * size, Len(pairs)))]

\* a dictionary keeps its keys in the order of their first insertion
HasKey(d, key) == \E i \in 1 .. Len(d) : d[i].key = key

\* edges[key] = val, line 179
DictSet(d, key, val) ==
  IF HasKey(d, key)
    THEN [i \in 1 .. Len(d) |-> IF d[i].key = key THEN [key |-> key, val |-> val] ELSE d[i]]
  ELSE Append(d, [key |-> key, val |-> val])

\* all_edges[key] += val on a defaultdict(int), line 193
DictAdd(d, key, val) ==
  IF HasKey(d, key)
    THEN [i \in 1 .. Len(d) |->
            IF d[i].key = key THEN [key |-> key, val |-> d[i].val + val] ELSE d[i]]
  ELSE Append(d, [key |-> key, val |-> 0 + val])

RECURSIVE EdgeBatchUpTo(_, _, _)
\* the loop of lines 176-179 after the first n pairs of the batch
EdgeBatchUpTo(subs, pair_batch, n) ==
  IF n = 0 THEN <<>>
  ELSE LET edges == EdgeBatchUpTo(subs, pair_batch, n - 1)
           u1 == pair_batch[n][1]
           u2 == pair_batch[n][2]
           shared == subs[u1] \cap subs[u2]
       IN IF shared # {} THEN DictSet(edges, <<u1, u2>>, Cardinality(shared)) ELSE edges

\* lines 173-180: the dictionary of the batch, an entry only for a pair
\* that shares a subreddit
compute_edge_batch(subs, pair_batch) == EdgeBatchUpTo(subs, pair_batch, Len(pair_batch))

RECURSIVE AccumulatedUpTo(_, _, _)
AccumulatedUpTo(edges, batch_result, n) ==
  IF n = 0 THEN edges
  ELSE DictAdd(AccumulatedUpTo(edges, batch_result, n - 1),
               batch_result[n].key, batch_result[n].val)

\* lines 192-193: every item of the batch result added into all_edges
Accumulated(edges, batch_result) ==
  AccumulatedUpTo(edges, batch_result, Len(batch_result))

InitEdges ==
  /\ csv = [kind |-> "not_found", rows |-> <<>>]
  /\ filter_type = "ncdf"
  /\ alpha = <<1, 2>>
  /\ num_processes = 1
  /\ pc = "call"
  /\ edgelist_df = <<>>
  /\ unique_nodes = <<>>
  /\ next_task = 1
  /\ running = [w \in Workers |-> 0]
  /\ results = <<>>
  /\ merged = 0
  /\ backbone_edges = {}
  /\ backbone_df = {}
  /\ stdout = <<>>
  /\ out_of_order = FALSE
  /\ failed = {}
  /\ output_file = NoFile
  /\ exit_status = "running"
  /\ user_subreddits \in UserSubreddits
  /\ chunk_size \in ChunkSizes
  /\ next_chunk = 1
  /\ in_flight = {}
  /\ arrived = <<>>
  /\ all_edges = <<>>
  /\ build_pc = "pool"

\* the pool hands the next chunk to a free worker process
DispatchChunk ==
  /\ build_pc = "pool"
  /\ next_chunk <= NumChunks(chunk_size)
  /\ Cardinality(in_flight) < MaxProcesses
  /\ in_flight' = in_flight \cup {next_chunk}
  /\ next_chunk' = next_chunk + 1
  /\ UNCHANGED <<user_subreddits, chunk_size, arrived, all_edges, build_pc>>
  /\ UNCHANGED <<filter_vars, failed, output_file, exit_status>>

\* a worker finishes compute_edge_batch on its chunk; imap_unordered
\* yields the results in the order in which they are finished
ChunkDone(c) ==
  /\ build_pc = "pool"
  /\ c \in in_flight
  /\ in_flight' = in_flight \ {c}
  /\ arrived' = Append(arrived,
                       compute_edge_batch(user_subreddits,
                                          chunked_iterable(user_pairs, chunk_size)[c]))
  /\ UNCHANGED <<user_subreddits, chunk_size, next_chunk, all_edges, build_pc>>
  /\ UNCHANGED <<filter_vars, failed, output_file, exit_status>>

\* the body of the for loop, lines 192-193, on the next result
AccumulateBatch ==
  /\ build_pc = "pool"
  /\ arrived # <<>>
  /\ all_edges' = Accumulated(all_edges, Head(arrived))
  /\ arrived' = Tail(arrived)
  /\ UNCHANGED <<user_subreddits, chunk_size, next_chunk, in_flight, build_pc>>
  /\ UNCHANGED <<filter_vars, failed, output_file, exit_status>>

\* line 194
ReturnEdges ==
  /\ build_pc = "pool"
  /\ next_chunk > NumChunks(chunk_size)
  /\ in_flight = {}
  /\ arrived = <<>>
  /\ build_pc' = "done"
  /\ UNCHANGED <<user_subreddits, chunk_size, next_chunk, in_flight, arrived, all_edges>>
  /\ UNCHANGED <<filter_vars, failed, output_file, exit_status>>

NextEdges ==
  \/ DispatchChunk
  \/ \E c \in 1 .. NumPairs : ChunkDone(c)
  \/ AccumulateBatch
  \/ ReturnEdges

SpecEdges == InitEdges /\ [][NextEdges]_vars

TypeOK ==
  /\ pc \in {"call", "validated", "pool", "merge", "returned", "raised", "exited"}
  /\ merged \in 0 .. Len(results)

\* ------------------------------------------------------------ properties
Degree(n) == Cardinality(neighbors_df(n, edgelist_df))

TotalWeight(n) == SumWeights(edgelist_df, neighbors_df(n, edgelist_df))

\* alpha of input row i seen from node n
AlphaFrom(n, i) == calculate_ncdf_alpha(edgelist_df[i].weight, TotalWeight(n), Degree(n))

SignificantFrom(n, i) == Less(AlphaFrom(n, i), alpha)

\* the two endpoints of a row or record
Pair(r) == {r.source, r.target}

\* the record of input row i under its canonical key
Canonical(i) ==
  LET r == edgelist_df[i]
  IN [source |-> IF r.source < r.target THEN r.source ELSE r.target,
      target |-> IF r.source < r.target THEN r.target ELSE r.source,
      weight |-> r.weight]

RowIds == 1 .. Len(edgelist_df)

\* disparity_filter_ncdf_parallel has returned its backbone
NcdfReturned == pc = "returned" /\ filter_type = "ncdf" /\ edgelist_df # <<>>

\* positive weights and no self-loop: rows every reading of the validation
\* accepts
Positive(df) ==
  \A i \in 1 .. Len(df) : df[i].weight > 0 /\ df[i].source # df[i].target

\* the candidates the evaluation of node n produced
EmittedBy(n) ==
  LET k == CHOOSE t \in 1 .. Len(unique_nodes) : unique_nodes[t] = n
  IN ToDataFrame(results[k][1])

\* C1 as stated: for every simple edge list (of positive weights) and every
\* alpha_threshold, an input edge is in the returned backbone iff its
\* alpha seen from its source or its alpha seen from its target is strictly
\* below alpha_threshold.
C1_UnionAnyThreshold ==
  (NcdfReturned /\ Simple(edgelist_df) /\ Positive(edgelist_df)) =>
    \A i \in RowIds :
      (Canonical(i) \in backbone_df) <=>
        (SignificantFrom(edgelist_df[i].source, i) \/ SignificantFrom(edgelist_df[i].target, i))

\* C1 amended: the same equivalence for every alpha_threshold of at most 1
\* (above 1 the alpha 1.0 of a node of degree 1 or of total weight 0 is
\* below the threshold, while that node emits nothing).
C1_UnionOfEndpoints ==
  (NcdfReturned /\ Simple(edgelist_df) /\ Leq(alpha, One)) =>
    \A i \in RowIds :
      (Canonical(i) \in backbone_df) <=>
        (SignificantFrom(edgelist_df[i].source, i) \/ SignificantFrom(edgelist_df[i].target, i))

\* C1 witness: an edge kept although only one of its endpoints, both of
\* degree 2 or more, finds it significant, next to an edge that is dropped.
C1_Witness ==
  /\ NcdfReturned /\ Simple(edgelist_df) /\ Leq(alpha, One)
  /\ \E i, j \in RowIds :
       /\ Canonical(i) \in backbone_df
       /\ Canonical(j) \notin backbone_df
       /\ Degree(edgelist_df[i].source) >= 2 /\ Degree(edgelist_df[i].target) >= 2
       /\ SignificantFrom(edgelist_df[i].source, i) # SignificantFrom(edgelist_df[i].target, i)

\* one record per canonical pair, and every emitted row is there exactly once
OneRecordPerPair ==
  /\ \A r1, r2 \in backbone_df : Pair(r1) = Pair(r2) => r1 = r2
  /\ \A i \in RowIds :
       (\E n \in Pair(edgelist_df[i]) : Canonical(i) \in EmittedBy(n))
         => Cardinality({r \in backbone_df : Pair(r) = Pair(edgelist_df[i])}) = 1

\* C2 as stated: for every edge list the validation accepts (all columns,
\* at least one row; here with positive weights and no self-loop besides),
\* the returned backbone holds at
\* most one record per canonical node pair, and an edge emitted by one or by
\* both endpoints appears exactly once.
C2_OnePerPairAccepted ==
  (NcdfReturned /\ Positive(edgelist_df)) => OneRecordPerPair

\* C2 amended: the same for every accepted edge list that is simple (no two
\* rows join the same unordered pair).
C2_OnePerPairSimple == (NcdfReturned /\ Simple(edgelist_df)) => OneRecordPerPair

\* C2 witness: a row written (v, u) with v > u emitted by both endpoints and
\* another row emitted by one endpoint only.
C2_Witness ==
  /\ NcdfReturned /\ Simple(edgelist_df)
  /\ \E i, j \in RowIds :
       /\ edgelist_df[i].source > edgelist_df[i].target
       /\ \A n \in Pair(edgelist_df[i]) : Canonical(i) \in EmittedBy(n)
       /\ \E n, m \in Pair(edgelist_df[j]) :
            Canonical(j) \in EmittedBy(n) /\ Canonical(j) \notin EmittedBy(m)

\* C3: every record of the returned backbone joins the unordered pair of an
\* input row and carries exactly that row's weight.
C3_SubsetOfInput ==
  pc = "returned" =>
    \A r \in backbone_df :
      \E i \in RowIds : Pair(edgelist_df[i]) = Pair(r) /\ edgelist_df[i].weight = r.weight

\* C3 witness: a backbone that keeps one input row and drops another.
C3_Witness ==
  /\ NcdfReturned
  /\ \E i, j \in RowIds :
       /\ Canonical(i) \in backbone_df
       /\ \A r \in backbone_df : Pair(r) # Pair(edgelist_df[j])

\* the backbone one worker builds, evaluating the nodes in list order
RECURSIVE SequentialBackbone(_, _, _)
SequentialBackbone(df, t, k) ==
  IF k = 0 THEN {}
  ELSE SequentialBackbone(df, t, k - 1) \cup process_node_ncdf(UniqueNodes(df)[k], df, t)

\* C4: whatever the number of workers, the worker that takes each node and
\* the order in which the evaluations complete, the returned backbone is the
\* one a single worker builds by evaluating the nodes one after the other.
C4_Deterministic ==
  NcdfReturned =>
    backbone_df = ToDataFrame(SequentialBackbone(edgelist_df, alpha,
                                                 Len(UniqueNodes(edgelist_df))))

\* C4 witness: two workers, an evaluation that completed before an earlier
\* one of the list, and two nodes with different non-empty candidate lists.
C4_Witness ==
  /\ NcdfReturned /\ num_processes = 2 /\ out_of_order
  /\ \E i, j \in 1 .. Len(results) :
       results[i][1] # {} /\ results[j][1] # {} /\ results[i][1] # results[j][1]

\* C5: the evaluation of a node of degree below two yields no candidate,
\* whatever the weights and the threshold, and a backbone record incident to
\* such a node was emitted by the evaluation of its other endpoint.
C5_LowDegreeEmitsNothing ==
  /\ \A k \in 1 .. Len(results) :
       (results[k] # NoResult /\ Degree(unique_nodes[k]) < 2) => results[k][1] = {}
  /\ NcdfReturned =>
       \A r \in backbone_df : \A n \in Pair(r) :
         Degree(n) < 2 => \E m \in Pair(r) : m # n /\ r \in EmittedBy(m)

\* C5 witness: a threshold above 1, a node of degree 1 evaluated to nothing,
\* its edge in the backbone.
C5_Witness ==
  /\ NcdfReturned /\ Less(One, alpha)
  /\ \E r \in backbone_df : \E n \in Pair(r) :
       Degree(n) = 1 /\ EmittedBy(n) = {}

\* the backbone of an edge list at threshold t
BackboneAt(df, t) ==
  ToDataFrame(UNION {process_node_ncdf(n, df, t) : n \in Nodes})

\* C6: the backbone at a threshold is contained in the backbone of the same
\* edge list at every larger threshold, and contains it at every smaller one.
C6_Monotone ==
  NcdfReturned =>
    \A t \in Thresholds :
      /\ Leq(alpha, t) => backbone_df \subseteq BackboneAt(edgelist_df, t)
      /\ Leq(t, alpha) => BackboneAt(edgelist_df, t) \subseteq backbone_df

\* C6 witness: a non-empty backbone that a larger threshold strictly extends.
C6_Witness ==
  /\ NcdfReturned /\ backbone_df # {}
  /\ \E t \in Thresholds :
       Less(alpha, t) /\ backbone_df # BackboneAt(edgelist_df, t)

\* C7: merging a candidate list into the accumulator a second time leaves
\* the accumulator as the first merge left it.
C7_MergeIdempotent ==
  pc = "merge" =>
    \A k \in 1 .. Len(results) :
      Merge(Merge(backbone_edges, results[k][1]), results[k][1])
        = Merge(backbone_edges, results[k][1])

\* C7 witness: a non-empty accumulator and a candidate list that is partly
\* in it and partly new.
C7_Witness ==
  /\ pc = "merge" /\ backbone_edges # {}
  /\ \E k \in 1 .. Len(results) :
       /\ results[k][1] \cap backbone_edges # {}
       /\ results[k][1] \ backbone_edges # {}

\* the disparity-filter alpha p ^ (k - 1) of the specification
DisparityAlpha(weight, total_weight, degree) ==
  IF degree < 2 \/ total_weight = 0 THEN One
  ELSE Norm(<<Pow(weight, degree - 1), Pow(total_weight, degree - 1)>>)

DisparityBackbone ==
  {Canonical(i) : i \in {j \in RowIds :
     \E n \in Pair(edgelist_df[j]) :
       Less(DisparityAlpha(edgelist_df[j].weight, TotalWeight(n), Degree(n)), alpha)}}

\* C8: with the filter type 'disparity' and a well-formed non-empty edge
\* list, compute_backbone_network returns the backbone in which every node
\* keeps exactly its edges with (w / W) ^ (k - 1) < alpha_threshold.
C8_DisparityReturnsBackbone ==
  (filter_type = "disparity" /\ edgelist_df # <<>> /\ pc \in {"returned", "raised"})
    => (pc = "returned" /\ backbone_df = DisparityBackbone)

C10_AlphaInUnitInterval ==
  /\ filter_type = "ncdf" => pc # "raised"
  /\ \A k \in 1 .. Len(results) :
       (results[k] # NoResult /\ Simple(edgelist_df)) =>
         LET n == unique_nodes[k]
         IN \A i \in neighbors_df(n, edgelist_df) :
              /\ Leq(<<0, 1>>, AlphaFrom(n, i))
              /\ Leq(AlphaFrom(n, i), One)
              /\ (Degree(n) < 2 \/ TotalWeight(n) = 0) => AlphaFrom(n, i) = One

\* ---------------------------------------------------------- validation
EmptyInput == (csv.kind = "ok" /\ csv.rows = <<>>) \/ csv.kind = "no_content"

RejectedInput == csv.kind # "ok" \/ csv.rows = <<>>

NoWorkerStarted ==
  /\ unique_nodes = <<>>
  /\ results = <<>>
  /\ next_task = 1
  /\ \A w \in Workers : running[w] = 0

\* C11: for every input that lacks a required column, is empty or cannot
\* be read, the orchestrator never raises and never starts a worker, and
\* it returns an empty result with exactly one line of cause printed; for
\* an empty input that line is the warning, not an error.
C11_ValidationReported ==
  RejectedInput =>
    /\ pc # "raised"
    /\ NoWorkerStarted
    /\ pc = "returned" =>
         /\ backbone_df = {}
         /\ Len(stdout) = 1
         /\ EmptyInput => stdout[1] = "Warning: Input CSV file is empty."

\* C12: an edge list with a row of negative weight is rejected before any
\* node is evaluated: no worker ever runs process_node_ncdf on it and no
\* candidate list is produced from it.
C12_NegativeWeightRejected ==
  (/\ \E i \in 1 .. Len(csv.rows) : csv.rows[i].weight < 0
   /\ \A i \in 1 .. Len(csv.rows) : csv.rows[i].source # csv.rows[i].target) =>
    /\ \A w \in Workers : running[w] = 0
    /\ \A k \in 1 .. Len(results) : results[k] = NoResult

\* -------------------------------------------------------- command line
FailsValidation == csv.kind \in {"no_weight_column", "unreadable", "not_found"}

PassesValidation == csv.kind = "ok" /\ csv.rows # <<>>

WellFormed == PassesValidation /\ Simple(csv.rows) /\ Positive(csv.rows)

\* C13: a command-line run whose input fails validation never creates the
\* output file and ends with the cause printed and a non-zero exit status;
\* a run on an empty input ends with exit status 0.
C13_ValidationExitStatus ==
  /\ FailsValidation => output_file = NoFile
  /\ (pc = "exited" /\ FailsValidation) =>
       /\ Len(stdout) >= 1
       /\ exit_status # "0"
  /\ (pc = "exited" /\ csv.kind = "ok" /\ csv.rows = <<>>) => exit_status = "0"

\* C14: a command-line run whose input passes validation and whose
\* computation completes writes the output file, and whenever the file
\* exists it holds exactly the computed backbone edge set (already for
\* simple edge lists of positive weights).
C14_OutputWritten ==
  (WellFormed /\ filter_type = "ncdf") =>
    /\ output_file.exists => output_file.rows = backbone_df
    /\ pc = "exited" => output_file = [exists |-> TRUE, rows |-> backbone_df]

\* ------------------------------------------------------- failing worker
\* C15: once the evaluation of a node has failed in a worker, the
\* computation can only end by raising to the caller: it never merges,
\* never returns, and no backbone is built from the other nodes' candidates.
C15_FailFast ==
  failed # {} =>
    /\ pc \in {"pool", "raised"}
    /\ merged = 0
    /\ backbone_edges = {}
    /\ backbone_df = {}
    /\ \A k \in failed : results[k] = NoResult

\* C15 witness: the error has reached the caller while another node's
\* evaluation had produced candidates.
C15_Witness ==
  /\ pc = "raised"
  /\ failed # {}
  /\ \E k \in 1 .. Len(results) : results[k] # NoResult /\ results[k][1] # {}

\* ------------------------------------------------- coordinator and pool
\* the identifiers that appear as source or target of the validated list
NodeIds ==
  {edgelist_df[i].source : i \in 1 .. Len(edgelist_df)}
    \cup {edgelist_df[i].target : i \in 1 .. Len(edgelist_df)}

\* the step that hands the backbone to the caller comes after everything
\* has been produced and merged
ReturnsComplete ==
  (pc = "merge" /\ pc' = "returned") =>
    /\ \A n \in NodeIds :
         Cardinality({k \in 1 .. Len(unique_nodes) : unique_nodes[k] = n}) = 1
    /\ Len(results) = Len(unique_nodes)
    /\ \A k \in 1 .. Len(results) : results[k] # NoResult
    /\ merged = Len(results)
    /\ backbone_edges = UNION {results[k][1] : k \in 1 .. Len(results)}
    /\ backbone_df' = ToDataFrame(backbone_edges)

\* a task is handed out once and its result is stored once
EvaluatedOnce ==
  /\ \A k \in 1 .. Len(results) :
       (results[k] # NoResult /\ Len(results') = Len(results)) => results'[k] = results[k]
  /\ \A w \in Workers :
       (running'[w] # 0 /\ running'[w] # running[w]) =>
         /\ running'[w] = next_task
         /\ next_task' = next_task + 1
         /\ results[running'[w]] = NoResult
         /\ \A v \in Workers : running[v] # running'[w]

\* backbone_edges is written by the coordinator only, after the pool is done
MergeOnCoordinator ==
  backbone_edges' # backbone_edges =>
    /\ pc = "merge"
    /\ \A w \in Workers : running[w] = 0
    /\ merged' = merged + 1
    /\ backbone_edges' = backbone_edges \cup results[merged + 1][1]

ImmutableOnceReturned ==
  pc \in {"returned", "exited"} =>
    /\ backbone_df' = backbone_df
    /\ backbone_edges' = backbone_edges

\* C16: the backbone is returned only after the candidate set of every
\* unique node has been produced and merged, each node evaluated exactly
\* once; only the coordinator merges, and the backbone does not change
\* after it has been handed to the caller.
C16_MergeThenReturn ==
  [][ReturnsComplete /\ EvaluatedOnce /\ MergeOnCoordinator /\ ImmutableOnceReturned]_vars

\* C16 witness: a run over four nodes whose results arrived out of task
\* order, returned a non-empty backbone to the caller and wrote it.
C16_Witness ==
  /\ pc = "exited"
  /\ filter_type = "ncdf"
  /\ out_of_order
  /\ Len(unique_nodes) = 4
  /\ merged = 4
  /\ backbone_df # {}
  /\ output_file = [exists |-> TRUE, rows |-> backbone_df]

\* ------------------------------------------------------ the shared input
\* the workers have been started and the result is not yet consumed
Evaluating == pc \in {"pool", "merge"} \/ NcdfReturned

\* C17: from the moment the workers start until the result is returned,
\* the edge list every evaluation reads equals the validated input; the
\* degree and the total weight of a node are computed from that list by
\* each evaluation and are kept nowhere else.
C17_InputUnchanged == Evaluating => edgelist_df = csv.rows

\* C17 witness: a run with two workers returned a backbone that leaves out
\* an input edge, and the edge is still in the edge list.
C17_Witness ==
  /\ NcdfReturned
  /\ num_processes = 2
  /\ out_of_order
  /\ backbone_df # {}
  /\ \E i \in RowIds : Canonical(i) \notin backbone_df

\* ------------------------------------------------- degrees and weights
RECURSIVE DegreeSum(_)
\* the degrees the evaluations of the first k tasks use, added up
DegreeSum(k) == IF k = 0 THEN 0 ELSE Degree(unique_nodes[k]) + DegreeSum(k - 1)

RECURSIVE IncidentWeight(_, _)
\* the weights of the first k rows in which n is source or target
IncidentWeight(n, k) ==
  IF k = 0 THEN 0
  ELSE IncidentWeight(n, k - 1)
         + (IF n \in Pair(edgelist_df[k]) THEN edgelist_df[k].weight ELSE 0)

NoSelfLoop(df) == \A i \in 1 .. Len(df) : df[i].source # df[i].target

DegreesAndWeights ==
  /\ DegreeSum(Len(unique_nodes)) = 2 * Len(edgelist_df)
  /\ \A k \in 1 .. Len(unique_nodes) :
       /\ Degree(unique_nodes[k]) =
            Cardinality({i \in RowIds : unique_nodes[k] \in Pair(edgelist_df[i])})
       /\ TotalWeight(unique_nodes[k]) = IncidentWeight(unique_nodes[k], Len(edgelist_df))

\* every unique node has been evaluated
AllEvaluated == pc = "merge" \/ NcdfReturned

\* C18 as stated: for every accepted edge list the degrees of the unique
\* nodes sum to twice the number of input edges, and each node's
\* total_weight is the sum of the weights of its rows (already for rows of
\* positive weight).
C18_DegreeSumAccepted ==
  (AllEvaluated /\ \A i \in RowIds : edgelist_df[i].weight > 0) => DegreesAndWeights

\* C18: for every accepted edge list without a self-loop row, the degrees
\* used by the evaluations sum over the unique nodes to twice the number of
\* rows, and each node's total_weight is the sum of the weights of exactly
\* the rows in which it is source or target.
C18_DegreeSumNoSelfLoop ==
  (AllEvaluated /\ NoSelfLoop(edgelist_df)) => DegreesAndWeights

\* C18 witness: three rows without self-loop, one node on all three, and
\* every node has been evaluated.
C18_Witness ==
  /\ pc = "merge"
  /\ NoSelfLoop(edgelist_df)
  /\ Len(edgelist_df) = 3
  /\ \E k \in 1 .. Len(results) :
       results[k] # NoResult /\ Degree(unique_nodes[k]) = 3

\* --------------------------------------------------------- edge builder
Shared(u1, u2) == user_subreddits[u1] \cap user_subreddits[u2]

\* the entries of all_edges under the key p
EdgesOf(p) == {i \in 1 .. Len(all_edges) : all_edges[i].key = p}

\* C19: when build_edge_list returns, every pair of distinct users whose
\* subreddit sets intersect has exactly one edge, of weight the size of the
\* intersection, and a pair with an empty intersection has none; for every
\* chunk size and every order of arrival of the batch results.
C19_EdgeWeights ==
  build_pc = "done" =>
    /\ \A i \in 1 .. Len(all_edges) : all_edges[i].key \in PairSet
    /\ \A p \in PairSet :
         /\ Shared(p[1], p[2]) # {} =>
              /\ Cardinality(EdgesOf(p)) = 1
              /\ \A i \in EdgesOf(p) : all_edges[i].val = Cardinality(Shared(p[1], p[2]))
         /\ Shared(p[1], p[2]) = {} => EdgesOf(p) = {}

\* C19 witness: several chunks whose results were accumulated in another
\* order than the order of the pairs, and the returned edges hold a pair of
\* weight 2, a pair of weight 1 and miss a pair that shares nothing.
C19_Witness ==
  /\ build_pc = "done"
  /\ NumChunks(chunk_size) >= 3
  /\ \E i, j \in 1 .. Len(all_edges) :
       /\ i < j
       /\ PairRank(all_edges[i].key) > PairRank(all_edges[j].key)
       /\ all_edges[i].val = 2
       /\ all_edges[j].val = 1
  /\ \E p \in PairSet : EdgesOf(p) = {}
====
